---- MODULE Spec2Model ----
(***************************************************************************)
(* CMS-Detect: the domain-to-CMS detection pipeline of bot_eshop_core.py   *)
(* (extract_domain_from_email, guess_website_url, detect_cms_from_response,*)
(* find_email_column, detect_cms_for_email_with_url, process_dataframe,    *)
(* process_excel) and its caller CMSDetectorApp in app_gui.py.             *)
(*                                                                         *)
(* Python values are records [t |-> type name, v |-> payload]; Python      *)
(* strings are TLA+ strings, taken apart character by character with       *)
(* SubSeq, so that strip, lower, split, replace and "in" are computed.     *)
(***************************************************************************)
EXTENDS Integers, Sequences, FiniteSets, TLC

VARIABLES
    input_file,     \* CMSDetectorApp.input_file
    message,        \* the last messagebox shown by run_detection
    pc,             \* position of the running call
    df,             \* the dataframe read by process_excel
    email_col,      \* process_dataframe: index of the email column
    i,              \* process_dataframe: number of rows taken from the column
    cms_results,    \* process_dataframe: list cms_results
    urls_results,   \* process_dataframe: list urls_results
    error_details,  \* process_dataframe: list error_details
    domain,         \* detect_cms_for_email_with_url: domain of the current row
    k,              \* guess_website_url: number of combinations requested
    requested,      \* the GET requests issued for the current row, in order
    classified,     \* number of classifier calls made for the current row
    netlog,         \* per row taken: what the network (or extractor) gave it
    outfile,        \* the output spreadsheet on disk (None when absent)
    writes,         \* number of to_excel calls of this process_excel call
    arg,            \* argument of a directly called function
    ret             \* its return value

vars == <<input_file, message, pc, df, email_col, i, cms_results, urls_results,
          error_details, domain, k, requested, classified, netlog, outfile,
          writes, arg, ret>>

(***************************************************************************)
(* Python values                                                           *)
(***************************************************************************)
None == [t |-> "NoneType", v |-> ""]
PyStr(s) == [t |-> "str", v |-> s]
NaN == [t |-> "float", v |-> "nan"]
PyInt(s) == [t |-> "int", v |-> s]

\* isinstance(x, str)
isinstance_str(x) == x.t = "str"

\* pd.isna(x) for a scalar
isna(x) == x.t = "NoneType" \/ (x.t = "float" /\ x.v = "nan")

\* str(x)
str(x) == x.v

(***************************************************************************)
(* Python string methods                                                   *)
(***************************************************************************)
CharAt(s, n) == SubSeq(s, n, n)

\* the lowercase of one character
LowerChar(c) ==
    CASE c = "A" -> "a" [] c = "B" -> "b" [] c = "C" -> "c"
      [] c = "D" -> "d" [] c = "E" -> "e" [] c = "F" -> "f"
      [] c = "G" -> "g" [] c = "H" -> "h" [] c = "I" -> "i"
      [] c = "J" -> "j" [] c = "K" -> "k" [] c = "L" -> "l"
      [] c = "M" -> "m" [] c = "N" -> "n" [] c = "O" -> "o"
      [] c = "P" -> "p" [] c = "Q" -> "q" [] c = "R" -> "r"
      [] c = "S" -> "s" [] c = "T" -> "t" [] c = "U" -> "u"
      [] c = "V" -> "v" [] c = "W" -> "w" [] c = "X" -> "x"
      [] c = "Y" -> "y" [] c = "Z" -> "z"
      [] OTHER -> c

\* s.lower()
lower(s) ==
    LET low[t \in STRING] ==
            IF Len(t) = 0 THEN ""
            ELSE LowerChar(CharAt(t, 1)) \o low[SubSeq(t, 2, Len(t))]
    IN  low[s]

IsSpace(c) == c \in {" ", "\t", "\n", "\r"}

\* s.lstrip()
lstrip(s) ==
    LET ls[t \in STRING] ==
            IF Len(t) > 0 /\ IsSpace(CharAt(t, 1)) THEN ls[SubSeq(t, 2, Len(t))]
            ELSE t
    IN  ls[s]

\* s.rstrip()
rstrip(s) ==
    LET rs[t \in STRING] ==
            IF Len(t) > 0 /\ IsSpace(CharAt(t, Len(t))) THEN rs[SubSeq(t, 1, Len(t) - 1)]
            ELSE t
    IN  rs[s]

\* s.strip()
strip(s) == rstrip(lstrip(s))

\* sub in s
Contains(s, sub) ==
    LET has[t \in STRING] ==
            \E n \in 1..(Len(t) - Len(sub) + 1) : SubSeq(t, n, n + Len(sub) - 1) = sub
    IN  has[s]

\* s.replace(c, "") for a one-character c
remove(s, c) ==
    LET rm[t \in STRING] ==
            IF Len(t) = 0 THEN ""
            ELSE (IF CharAt(t, 1) = c THEN "" ELSE CharAt(t, 1))
                 \o rm[SubSeq(t, 2, Len(t))]
    IN  rm[s]

\* s.split(c) for a one-character c, as the sequence of parts
split(s, c) ==
    LET sp[t \in STRING] ==
            IF ~ Contains(t, c) THEN <<t>>
            ELSE LET n == CHOOSE m \in 1..Len(t) :
                              CharAt(t, m) = c /\ \A j \in 1..(m - 1) : CharAt(t, j) /= c
                 IN  <<SubSeq(t, 1, n - 1)>> \o sp[SubSeq(t, n + 1, Len(t))]
    IN  sp[s]

(***************************************************************************)
(* extract_domain_from_email                                               *)
(***************************************************************************)
GENERIC_EMAIL_DOMAINS ==
    {"gmail.com", "outlook.com", "hotmail.com", "live.com",
     "yahoo.com", "icloud.com", "proton.me", "protonmail.com",
     "orange.fr", "free.fr", "skynet.be", "telenet.be", "sfr.fr",
     "gmx.com", "gmx.net"}

\* the "nettoyage basique" of the domain
clean(d) == remove(remove(remove(remove(d, ">"), "<"), ";"), ",")

\* the provider test of extract_domain_from_email, made on the domain as it
\* is before the clean-up
is_generic(d) == d \in GENERIC_EMAIL_DOMAINS

extract_domain_from_email(email) ==
    IF ~ isinstance_str(email) THEN None
    ELSE LET e == strip(email.v) IN
         IF ~ Contains(e, "@") THEN None
         ELSE LET parts == split(e, "@") IN
              IF Len(parts) /= 2 THEN None
              ELSE LET d == lower(strip(parts[2])) IN
                   IF d = "" \/ is_generic(d) THEN None
                   ELSE IF Contains(clean(d), ".") THEN PyStr(clean(d))
                        ELSE None

(***************************************************************************)
(* guess_website_url                                                       *)
(***************************************************************************)
schemes == <<"https://", "http://">>
prefixes == <<"", "www.">>

\* attempt_url with the loops nested the other way round
attempt_url_prefix_major(n, d) ==
    schemes[((n - 1) % Len(schemes)) + 1]
        \o prefixes[((n - 1) \div Len(schemes)) + 1] \o d

\* attempt_url with the scheme loop stuck on its first scheme
attempt_url_same_scheme(n, d) ==
    schemes[1] \o prefixes[((n - 1) % Len(prefixes)) + 1] \o d

\* the URL built by the n-th pass (n = 1..4) through the nested loops
\* "for scheme in schemes: for prefix in prefixes"
attempt_url(n, d) ==
    schemes[((n - 1) \div Len(prefixes)) + 1]
        \o prefixes[((n - 1) % Len(prefixes)) + 1] \o d

NumAttempts == Len(schemes) * Len(prefixes)

\* 200 <= resp.status_code < 400 and (resp.text is not None)
qualifies(resp) ==
    /\ 200 <= resp.status_code
    /\ resp.status_code < 400
    /\ resp.text.t /= "NoneType"

\* an except clause that catches timeouts only
is_RequestException_timeout_only(e) == e.kind \in {"Timeout"}

\* except requests.RequestException
is_RequestException(e) == e.kind \in {"ConnectionError", "Timeout", "SSLError"}

(***************************************************************************)
(* detect_cms_from_response                                                *)
(***************************************************************************)
PyDict(f) == [t |-> "dict", v |-> f]
EmptyDict == PyDict(<<>>)

\* (x or default) for x a str, a dict or None
or_default(x, default) ==
    IF \/ x.t = "NoneType"
       \/ (x.t = "str" /\ x.v = "")
       \/ (x.t = "dict" /\ DOMAIN x.v = {})
    THEN default ELSE x

\* {k.lower(): str(v).lower() for k, v in headers.items()}
lower_headers(h) ==
    LET keys == {lower(key) : key \in DOMAIN h}
    IN  [lk \in keys |-> lower(h[CHOOSE key \in DOMAIN h : lower(key) = lk])]

\* headers.get(key, "")
header_get(h, key) == IF key \in DOMAIN h THEN h[key] ELSE ""

is_shopify(html, headers, url) ==
    \/ Contains(html, "cdn.shopify.com")
    \/ Contains(html, "shopify-checkout")
    \/ Contains(url, "myshopify.com")
    \/ "x-shopify-stage" \in DOMAIN headers

is_wix(html, headers) ==
    \/ Contains(html, "wixstatic.com")
    \/ Contains(html, "wix.com")
    \/ "x-wix-request-id" \in DOMAIN headers

is_odoo(html, headers) ==
    \/ Contains(html, "web.assets_frontend")
    \/ Contains(html, "/web/content/")
    \/ Contains(html, "meta name=\"generator\" content=\"odoo\"")
    \/ Contains(header_get(headers, "set-cookie"), "odoo")

is_wordpress(html) ==
    \/ Contains(html, "/wp-content/")
    \/ Contains(html, "/wp-includes/")
    \/ Contains(html, "wp-json")
    \/ Contains(html, "meta name=\"generator\" content=\"wordpress")

is_woocommerce(html) == Contains(html, "woocommerce")

is_prestashop(html) ==
    Contains(html, "prestashop") \/ Contains(html, "powered by prestashop")

is_squarespace(html) ==
    Contains(html, "static1.squarespace.com") \/ Contains(html, "squarespace.com")

\* detect_cms_from_response with the WordPress test moved to the front
detect_cms_wordpress_first(resp) ==
    IF resp = None THEN "Unknown / No site"
    ELSE LET html == lower(or_default(resp.text, PyStr("")).v)
             headers == lower_headers(or_default(resp.headers, EmptyDict).v)
             url == lower(or_default(resp.url, PyStr("")).v)
         IN  IF is_wordpress(html)
                  THEN (IF is_woocommerce(html) THEN "WordPress + WooCommerce"
                        ELSE "WordPress")
             ELSE IF is_shopify(html, headers, url) THEN "Shopify"
             ELSE IF is_wix(html, headers) THEN "Wix"
             ELSE IF is_odoo(html, headers) THEN "Odoo"
             ELSE IF is_prestashop(html) THEN "PrestaShop"
             ELSE IF is_squarespace(html) THEN "Squarespace"
             ELSE "Unknown / Custom"

detect_cms_from_response(resp) ==
    IF resp = None THEN "Unknown / No site"
    ELSE LET html == lower(or_default(resp.text, PyStr("")).v)
             headers == lower_headers(or_default(resp.headers, EmptyDict).v)
             url == lower(or_default(resp.url, PyStr("")).v)
         IN  IF is_shopify(html, headers, url) THEN "Shopify"
             ELSE IF is_wix(html, headers) THEN "Wix"
             ELSE IF is_odoo(html, headers) THEN "Odoo"
             ELSE IF is_wordpress(html)
                  THEN (IF is_woocommerce(html) THEN "WordPress + WooCommerce"
                        ELSE "WordPress")
             ELSE IF is_prestashop(html) THEN "PrestaShop"
             ELSE IF is_squarespace(html) THEN "Squarespace"
             ELSE "Unknown / Custom"

(***************************************************************************)
(* find_email_column                                                       *)
(* A dataframe is [columns |-> names, data |-> one sequence of cells per   *)
(* column]; a column is identified by its position.                        *)
(***************************************************************************)
\* series.astype(str): a missing cell becomes "nan"
astype_str(cell) == str(cell)

\* series.str.contains("@", na=False).sum()
RECURSIVE at_score(_)
at_score(cells) ==
    IF Len(cells) = 0 THEN 0
    ELSE (IF Contains(astype_str(cells[1]), "@") THEN 1 ELSE 0)
         + at_score(Tail(cells))

\* defined when the dataframe has a column; df.columns[0] raises IndexError
\* when it has none
find_email_column(d) ==
    LET cols == 1..Len(d.columns)
        named == {c \in cols : lower(strip(str(d.columns[c]))) = "email"}
        best == CHOOSE c \in cols :
                    /\ \A o \in cols : at_score(d.data[o]) <= at_score(d.data[c])
                    /\ \A o \in 1..(c - 1) : at_score(d.data[o]) < at_score(d.data[c])
    IN  IF named /= {} THEN CHOOSE c \in named : \A o \in named : c <= o
        ELSE IF at_score(d.data[best]) > 0 THEN best
        ELSE 1

(***************************************************************************)
(* Inputs: spreadsheets, the network                                       *)
(***************************************************************************)
MaxRows == 2

Files == {"Clients.XLSX"}

Cells == {NaN, PyStr("a@GMail.com"), PyStr(" Contact@Shop.io; ")}

Columns == UNION {[1..n -> Cells] : n \in 0..MaxRows}

DataFrames ==
    {[columns |-> <<>>, data |-> <<>>]}
    \cup {[columns |-> <<PyStr(" Email")>>, data |-> <<c>>] : c \in Columns}
    \cup {[columns |-> <<PyInt("0"), PyStr("contact")>>,
           data |-> <<[n \in 1..Len(c) |-> PyInt("7")], c>>] : c \in Columns}

\* what a GET of url can answer: the final status, body, headers and URL
NetResponses(url) ==
    {[status_code |-> 200,
      text |-> PyStr("<a href=//CDN.Shopify.com/wp-content/>"),
      headers |-> EmptyDict,
      url |-> PyStr(url \o "/")],
     [status_code |-> 399,
      text |-> PyStr("<a href=/WP-Includes/WooCommerce>"),
      headers |-> PyDict("Server" :> "nginx"),
      url |-> PyStr("https://www.shop.example/home")],
     [status_code |-> 400,
      text |-> PyStr("shopify-checkout"),
      headers |-> EmptyDict,
      url |-> PyStr(url)]}

\* what a GET can raise: requests' own exceptions, and others
NetExceptions ==
    {[kind |-> "ConnectionError", msg |-> "connection refused"],
     [kind |-> "UnicodeError", msg |-> "label empty or too long"],
     [kind |-> "MemoryError", msg |-> ""]}

(***************************************************************************)
(* CMSDetectorApp, process_excel, process_dataframe                        *)
(***************************************************************************)
Init ==
    /\ input_file = None
    /\ message = ""
    /\ pc = "idle"
    /\ df = None
    /\ email_col = 0
    /\ i = 0
    /\ cms_results = <<>>
    /\ urls_results = <<>>
    /\ error_details = <<>>
    /\ domain = None
    /\ k = 0
    /\ requested = <<>>
    /\ classified = 0
    /\ netlog = <<>>
    /\ outfile = None
    /\ writes = 0
    /\ arg = None
    /\ ret = None

\* CMSDetectorApp.choose_file; an empty name is a cancelled dialog
choose_file ==
    /\ pc = "idle"
    /\ \E file \in Files \cup {""} :
           input_file' = IF file /= "" THEN PyStr(file) ELSE input_file
    /\ UNCHANGED <<message, pc, df, email_col, i, cms_results, urls_results,
                   error_details, domain, k, requested, classified, netlog,
                   outfile, writes, arg, ret>>

\* CMSDetectorApp.run_detection without a file: a warning, and return
run_detection_no_file ==
    /\ pc = "idle"
    /\ input_file = None
    /\ message' = "showwarning"
    /\ UNCHANGED <<input_file, pc, df, email_col, i, cms_results, urls_results,
                   error_details, domain, k, requested, classified, netlog,
                   outfile, writes, arg, ret>>

\* CMSDetectorApp.run_detection: the call of process_excel(self.input_file)
run_detection ==
    /\ pc = "idle"
    /\ input_file /= None
    /\ pc' = "read_excel"
    /\ UNCHANGED <<input_file, message, df, email_col, i, cms_results,
                   urls_results, error_details, domain, k, requested,
                   classified, netlog, outfile, writes, arg, ret>>

\* an exception leaving process_excel: run_detection shows it
propagate ==
    /\ message' = "showerror"
    /\ pc' = "done"

\* process_excel: df = pd.read_excel(input_path)
read_excel ==
    /\ pc = "read_excel"
    /\ \E d \in DataFrames : df' = d
    /\ pc' = "process_dataframe"
    /\ UNCHANGED <<input_file, message, email_col, i, cms_results, urls_results,
                   error_details, domain, k, requested, classified, netlog,
                   outfile, writes, arg, ret>>

\* process_excel: pd.read_excel raises (unreadable spreadsheet)
read_excel_raises ==
    /\ pc = "read_excel"
    /\ propagate
    /\ UNCHANGED <<input_file, df, email_col, i, cms_results, urls_results,
                   error_details, domain, k, requested, classified, netlog,
                   outfile, writes, arg, ret>>

\* process_dataframe up to the loop: the email column, three empty lists
process_dataframe ==
    /\ pc = "process_dataframe"
    /\ Len(df.columns) > 0
    /\ email_col' = find_email_column(df)
    /\ cms_results' = <<>>
    /\ urls_results' = <<>>
    /\ error_details' = <<>>
    /\ pc' = "for_email"
    /\ UNCHANGED <<input_file, message, df, i, domain, k, requested, classified,
                   netlog, outfile, writes, arg, ret>>

\* process_dataframe on a sheet without columns: find_email_column raises
\* IndexError at df.columns[0]
process_dataframe_raises ==
    /\ pc = "process_dataframe"
    /\ Len(df.columns) = 0
    /\ propagate
    /\ UNCHANGED <<input_file, df, email_col, i, cms_results, urls_results,
                   error_details, domain, k, requested, classified, netlog,
                   outfile, writes, arg, ret>>

\* the three results put in front of the lists
append_row_prepend(cms, final_url, detail) ==
    /\ cms_results' = <<cms>> \o cms_results
    /\ urls_results' = <<final_url>> \o urls_results
    /\ error_details' = <<detail>> \o error_details

\* the three appends of one pass through the loop body
append_row(cms, final_url, detail) ==
    /\ cms_results' = Append(cms_results, cms)
    /\ urls_results' = Append(urls_results, final_url)
    /\ error_details' = Append(error_details, detail)

\* the try branch: detect_cms_for_email_with_url returned (cms, final_url)
returned_row(cms, final_url) == append_row(cms, final_url, "")

\* an except branch that starts the lists again
raised_row_resets(e) ==
    /\ cms_results' = <<"Error">>
    /\ urls_results' = <<"">>
    /\ error_details' = <<e.kind \o ": " \o e.msg>>

\* the except branch: f"{type(e).__name__}: {e}"
raised_row(e) == append_row("Error", "", e.kind \o ": " \o e.msg)

\* a test "domain is None" that never holds
no_domain_never(d) == FALSE

\* detect_cms_for_email_with_url: "if domain is None"
no_domain(d) == d = None

\* "for email in df[email_col]" takes the next cell; detect_cms_for_email_with_url
\* up to the first GET
for_email ==
    /\ pc = "for_email"
    /\ i < Len(df.data[email_col])
    /\ i' = i + 1
    /\ requested' = <<>>
    /\ classified' = 0
    /\ k' = 0
    /\ LET email == df.data[email_col][i + 1]
           email_str == IF isna(email) THEN "" ELSE strip(str(email))
           d == extract_domain_from_email(PyStr(email_str))
       IN  /\ netlog' = Append(netlog, [email |-> email, resp |-> None, exc |-> None])
           /\ domain' = d
           /\ IF no_domain(d)
              THEN /\ returned_row("No domain / Generic email", "")
                   /\ pc' = "for_email"
              ELSE IF d.v = ""
              THEN /\ returned_row("Unknown / No site", "")
                   /\ pc' = "for_email"
              ELSE /\ pc' = "requests_get"
                   /\ UNCHANGED <<cms_results, urls_results, error_details>>
    /\ UNCHANGED <<input_file, message, df, email_col, outfile, writes, arg, ret>>

\* next_combination returning the URL last tried with "Unknown / No site"
next_combination_keeps_url ==
    /\ k' = k + 1
    /\ IF k + 1 < NumAttempts
       THEN /\ pc' = "requests_get"
            /\ UNCHANGED <<cms_results, urls_results, error_details>>
       ELSE /\ returned_row("Unknown / No site", attempt_url(k + 1, domain.v))
            /\ pc' = "for_email"

\* guess_website_url after an attempt that did not return: the next
\* combination, or (None, None) and the row "Unknown / No site"
next_combination ==
    /\ k' = k + 1
    /\ IF k + 1 < NumAttempts
       THEN /\ pc' = "requests_get"
            /\ UNCHANGED <<cms_results, urls_results, error_details>>
       ELSE /\ returned_row("Unknown / No site", "")
            /\ pc' = "for_email"

\* requests.get(url) answers
requests_get ==
    /\ pc = "requests_get"
    /\ k < NumAttempts
    /\ LET url == attempt_url(k + 1, domain.v) IN
       \E resp \in NetResponses(url) :
           /\ requested' = Append(requested, [url |-> url, resp |-> resp, exc |-> None])
           /\ IF qualifies(resp)
              THEN /\ k' = k + 1
                   /\ pc' = "for_email"
                   /\ IF resp.url = None
                      THEN /\ returned_row("Unknown / No site", "")
                           /\ UNCHANGED <<classified, netlog>>
                      ELSE /\ returned_row(detect_cms_from_response(resp), resp.url.v)
                           /\ classified' = classified + 1
                           /\ netlog' = [netlog EXCEPT ![i].resp = resp]
              ELSE /\ next_combination
                   /\ UNCHANGED <<classified, netlog>>
    /\ UNCHANGED <<input_file, message, df, email_col, i, domain, outfile,
                   writes, arg, ret>>

\* requests.get(url) raises: a RequestException is swallowed by
\* guess_website_url, anything else reaches the except of process_dataframe
requests_get_raises ==
    /\ pc = "requests_get"
    /\ k < NumAttempts
    /\ LET url == attempt_url(k + 1, domain.v) IN
       \E e \in NetExceptions :
           /\ requested' = Append(requested, [url |-> url, resp |-> None, exc |-> e])
           /\ IF is_RequestException(e)
              THEN /\ next_combination
                   /\ UNCHANGED netlog
              ELSE /\ raised_row(e)
                   /\ netlog' = [netlog EXCEPT ![i].exc = e]
                   /\ k' = k + 1
                   /\ pc' = "for_email"
    /\ UNCHANGED <<input_file, message, df, email_col, i, domain, classified,
                   outfile, writes, arg, ret>>

\* leaving the loop before the column is exhausted
end_for_early ==
    /\ pc = "for_email"
    /\ pc' = "to_excel"
    /\ domain' = None
    /\ k' = 0
    /\ requested' = <<>>
    /\ classified' = 0
    /\ UNCHANGED <<input_file, message, df, email_col, i, cms_results,
                   urls_results, error_details, netlog, outfile, writes,
                   arg, ret>>

\* the loop is over (the locals of the last row are gone): df_out is
\* assembled and the output path chosen
end_for ==
    /\ pc = "for_email"
    /\ i = Len(df.data[email_col])
    /\ pc' = "to_excel"
    /\ domain' = None
    /\ k' = 0
    /\ requested' = <<>>
    /\ classified' = 0
    /\ UNCHANGED <<input_file, message, df, email_col, i, cms_results,
                   urls_results, error_details, netlog, outfile, writes,
                   arg, ret>>

\* df_out[name] = values
set_column(d, name, values) ==
    IF \E c \in 1..Len(d.columns) : d.columns[c] = name
    THEN [d EXCEPT !.data[CHOOSE c \in 1..Len(d.columns) : d.columns[c] = name] = values]
    ELSE [columns |-> Append(d.columns, name), data |-> Append(d.data, values)]

\* the dataframe process_dataframe returns
df_out ==
    set_column(set_column(set_column(df,
        PyStr("cms_detected"), cms_results),
        PyStr("detected_url"), urls_results),
        PyStr("error_detail"), error_details)

\* s.endswith(suffix)
endswith(s, suffix) ==
    Len(s) >= Len(suffix) /\ SubSeq(s, Len(s) - Len(suffix) + 1, Len(s)) = suffix

\* the default output path of process_excel
output_path(input_path) ==
    IF endswith(lower(input_path), ".xlsx")
    THEN SubSeq(input_path, 1, Len(input_path) - 5) \o "_with_cms.xlsx"
    ELSE input_path \o "_with_cms.xlsx"

\* process_excel: df_out.to_excel(output_path), and the showinfo
to_excel ==
    /\ pc = "to_excel"
    /\ outfile' = [path |-> output_path(input_file.v), sheet |-> df_out]
    /\ writes' = writes + 1
    /\ message' = "showinfo"
    /\ pc' = "done"
    /\ UNCHANGED <<input_file, df, email_col, i, cms_results, urls_results,
                   error_details, domain, k, requested, classified, netlog,
                   arg, ret>>

\* process_excel: to_excel raises (unwritable output)
to_excel_raises ==
    /\ pc = "to_excel"
    /\ propagate
    /\ UNCHANGED <<input_file, df, email_col, i, cms_results, urls_results,
                   error_details, domain, k, requested, classified, netlog,
                   outfile, writes, arg, ret>>

Next ==
    \/ choose_file
    \/ run_detection_no_file
    \/ run_detection
    \/ read_excel
    \/ read_excel_raises
    \/ process_dataframe
    \/ process_dataframe_raises
    \/ for_email
    \/ requests_get
    \/ requests_get_raises
    \/ end_for
    \/ to_excel
    \/ to_excel_raises

Spec == Init /\ [][Next]_vars

\* one step of the loop of process_dataframe
loop_step == for_email \/ requests_get \/ requests_get_raises \/ end_for

\* The code is sequential: once inside process_dataframe the loop keeps
\* running, and every GET returns or raises within its timeout=10.
FairSpec == Spec /\ WF_vars(loop_step)

(***************************************************************************)
(* Direct calls of extract_domain_from_email and detect_cms_from_response  *)
(***************************************************************************)
MaxPieces == 4
MaxFrags == 2

\* all concatenations of 0..n strings of a set
RECURSIVE Concats(_, _)
Concats(S, n) ==
    IF n = 0 THEN {""}
    ELSE LET shorter == Concats(S, n - 1)
         IN  shorter \cup {a \o b : a \in shorter, b \in S}

EmailPieces == {"u", "@", "gmail.com", "MonSite.COM", "localhost", ";", " ", ">"}

ExtractInputs ==
    {PyStr(e) : e \in Concats(EmailPieces, MaxPieces)} \cup {None, NaN, PyInt("42")}

BodyFrags ==
    {"//CDN.Shopify.com/", "/wp-content/", "WooCommerce", "WIXSTATIC.com",
     "by PrestaShop", "squarespace.com", "/web/content/", "<p>"}

ClassifyInputs ==
    {[status_code |-> 200, text |-> t, headers |-> h, url |-> u] :
        t \in {PyStr(b) : b \in Concats(BodyFrags, MaxFrags)} \cup {None},
        h \in {EmptyDict, None,
               PyDict("X-Shopify-Stage" :> "production"),
               PyDict("X-Wix-Request-Id" :> "1f"),
               PyDict("Set-Cookie" :> "session_id=Odoo")},
        u \in {PyStr("https://shop.io/"), PyStr("https://x.MyShopify.com/"), None}}
    \cup {None}

\* the state before a direct call of a function on argument a
InitCall(position, inputs) ==
    /\ input_file = None
    /\ message = ""
    /\ pc = position
    /\ df = None
    /\ email_col = 0
    /\ i = 0
    /\ cms_results = <<>>
    /\ urls_results = <<>>
    /\ error_details = <<>>
    /\ domain = None
    /\ k = 0
    /\ requested = <<>>
    /\ classified = 0
    /\ netlog = <<>>
    /\ outfile = None
    /\ writes = 0
    /\ arg \in inputs
    /\ ret = None

InitExtract == InitCall("call_extract", ExtractInputs)

call_extract ==
    /\ pc = "call_extract"
    /\ ret' = extract_domain_from_email(arg)
    /\ pc' = "return_extract"
    /\ UNCHANGED <<input_file, message, df, email_col, i, cms_results,
                   urls_results, error_details, domain, k, requested,
                   classified, netlog, outfile, writes, arg>>

SpecExtract == InitExtract /\ [][call_extract]_vars

InitDetect == InitCall("call_detect", ClassifyInputs)

call_detect ==
    /\ pc = "call_detect"
    /\ ret' = PyStr(detect_cms_from_response(arg))
    /\ pc' = "return_detect"
    /\ UNCHANGED <<input_file, message, df, email_col, i, cms_results,
                   urls_results, error_details, domain, k, requested,
                   classified, netlog, outfile, writes, arg>>

SpecDetect == InitDetect /\ [][call_detect]_vars

(***************************************************************************)
(* C5                                                                      *)
(***************************************************************************)
\* the part after the single "@", trimmed, lowercased and stripped of > < ; ,
C5_Domain(email) == clean(lower(strip(split(strip(email.v), "@")[2])))

C5_Case ==
    /\ pc = "return_extract"
    /\ isinstance_str(arg)
    /\ Len(split(strip(arg.v), "@")) = 2

\* C5: extract_domain_from_email returns "no domain" whenever the part after
\* the single "@", after trimming, lowercasing and stripping the characters
\* > < ; , is empty, has no dot, or is an entry of the public-provider set;
\* and a domain that is returned is never a member of the public-provider set.
C5_ProviderRejectedAfterStripping ==
    C5_Case =>
        /\ (\/ C5_Domain(arg) = ""
            \/ ~ Contains(C5_Domain(arg), ".")
            \/ C5_Domain(arg) \in GENERIC_EMAIL_DOMAINS) => ret = None
        /\ ret /= None => ret.v \notin GENERIC_EMAIL_DOMAINS

(***************************************************************************)
(* C3                                                                      *)
(***************************************************************************)
C3_Html == lower(or_default(arg.text, PyStr("")).v)
C3_Headers == lower_headers(or_default(arg.headers, EmptyDict).v)
C3_Url == lower(or_default(arg.url, PyStr("")).v)

\* which marker sets match, in the priority order of the claim
C3_Matches ==
    <<is_shopify(C3_Html, C3_Headers, C3_Url), is_wix(C3_Html, C3_Headers),
      is_odoo(C3_Html, C3_Headers), is_wordpress(C3_Html),
      is_prestashop(C3_Html), is_squarespace(C3_Html)>>

C3_Labels ==
    <<"Shopify", "Wix", "Odoo",
      IF Contains(C3_Html, "woocommerce") THEN "WordPress + WooCommerce" ELSE "WordPress",
      "PrestaShop", "Squarespace">>

\* C3: for every non-absent response, detect_cms_from_response returns the
\* label of the first marker set that matches in the order Shopify, Wix,
\* Odoo, WordPress (WordPress + WooCommerce when the body also contains
\* "woocommerce"), PrestaShop, Squarespace, and Unknown / Custom when none
\* matches; a response matching the Shopify markers is labelled Shopify
\* whatever else it matches.
C3_FirstMatchWins ==
    (pc = "return_detect" /\ arg /= None) =>
        IF \E n \in 1..6 : C3_Matches[n]
        THEN ret.v = C3_Labels[CHOOSE n \in 1..6 :
                          C3_Matches[n] /\ \A m \in 1..(n - 1) : ~ C3_Matches[m]]
        ELSE ret.v = "Unknown / Custom"

C3_Witness ==
    /\ pc = "return_detect"
    /\ arg /= None
    /\ ret.v = "Shopify"
    /\ C3_Matches[4]
    /\ Contains(C3_Html, "woocommerce")

(***************************************************************************)
(* The rows of a run                                                       *)
(***************************************************************************)
\* the column process_dataframe iterates over
Column == IF email_col > 0 THEN df.data[email_col] ELSE <<>>

\* the rows whose result has been appended
Done == 1..Len(cms_results)

Row(j) == <<cms_results[j], urls_results[j], error_details[j]>>

\* status code in [200, 400) with a non-null body
InRange(resp) ==
    resp.status_code \in 200..399 /\ resp.text.t = "str"

\* the request got a response that ends the probing
Answered(req) == req.resp /= None /\ InRange(req.resp)

\* the request failed at transport level, or its response does not qualify
Failed(req) ==
    \/ req.exc /= None /\ req.exc.kind \in {"ConnectionError", "Timeout", "SSLError"}
    \/ req.resp /= None /\ ~ InRange(req.resp)

\* the row's cell yields no domain
NoDomain(cell) ==
    extract_domain_from_email(PyStr(IF isna(cell) THEN "" ELSE strip(str(cell)))) = None

\* the result of a row, from its own cell and what the network gave to it
RowResult(log) ==
    IF log.exc /= None THEN <<"Error", "", log.exc.kind \o ": " \o log.exc.msg>>
    ELSE IF NoDomain(log.email) THEN <<"No domain / Generic email", "", "">>
    ELSE IF log.resp = None THEN <<"Unknown / No site", "", "">>
    ELSE <<detect_cms_from_response(log.resp), log.resp.url.v, "">>

(***************************************************************************)
(* C1                                                                      *)
(***************************************************************************)
\* C1: process_dataframe produces exactly one result per input row: the three
\* result lists have the same length, which is the length of the input column
\* once the loop is over (also in the sheet written), and the j-th result is
\* the one computed from the j-th cell of the column.
C1_OneResultPerRowInOrder ==
    /\ Len(urls_results) = Len(cms_results)
    /\ Len(error_details) = Len(cms_results)
    /\ Len(netlog) = i
    /\ Len(cms_results) = IF pc = "requests_get" THEN i - 1 ELSE i
    /\ pc = "to_excel" => Len(cms_results) = Len(Column)
    /\ outfile /= None =>
           \A c \in 1..Len(outfile.sheet.data) :
               Len(outfile.sheet.data[c]) = Len(Column)
    /\ \A j \in Done :
           /\ netlog[j].email = Column[j]
           /\ Row(j) = RowResult(netlog[j])

C1_Witness ==
    /\ pc = "done"
    /\ outfile /= None
    /\ Len(cms_results) = 2
    /\ cms_results[1] = "Error"
    /\ cms_results[2] = "No domain / Generic email"

(***************************************************************************)
(* C2                                                                      *)
(***************************************************************************)
C2_Order == <<"https://", "https://www.", "http://", "http://www.">>

\* C2: the GETs of a row are https://domain, https://www.domain,
\* http://domain, http://www.domain in this order; none is issued after an
\* attempt with a status code in [200, 400) and a non-null body, and the URL
\* returned for the row is the final URL of that first qualifying attempt.
C2_OrderedUntilFirstQualifying ==
    requested /= <<>> =>
        /\ Len(requested) <= 4
        /\ \A n \in 1..Len(requested) : requested[n].url = C2_Order[n] \o domain.v
        /\ \A n \in 1..(Len(requested) - 1) : ~ Answered(requested[n])
        /\ Answered(requested[Len(requested)]) =>
               /\ pc /= "requests_get"
               /\ urls_results[i] = requested[Len(requested)].resp.url.v

C2_Witness ==
    /\ pc = "for_email"
    /\ i = 2
    /\ Len(requested) = 3
    /\ Answered(requested[3])
    /\ urls_results[i] = "http://shop.io/"

(***************************************************************************)
(* C4                                                                      *)
(***************************************************************************)
\* C4: a row whose processing raised has the result "Error", empty URL and the
\* non-empty detail "<exception kind>: <message>"; the loop goes on to the
\* next row (the run ends only with every row taken); every other row has the
\* result computed from its own cell and responses, with an empty detail.
C4_RaisingRowIsContained ==
    /\ \A j \in Done :
           IF netlog[j].exc /= None
           THEN /\ cms_results[j] = "Error"
                /\ urls_results[j] = ""
                /\ error_details[j] = netlog[j].exc.kind \o ": " \o netlog[j].exc.msg
                /\ Len(error_details[j]) > 0
           ELSE /\ cms_results[j] /= "Error"
                /\ error_details[j] = ""
                /\ Row(j) = RowResult(netlog[j])
    /\ (i >= 1 /\ i < Len(Column) /\ netlog[i].exc /= None) => pc = "for_email"
    /\ (pc \in {"to_excel", "done"} /\ email_col > 0) => Len(cms_results) = Len(Column)

C4_Witness ==
    /\ pc = "done"
    /\ message = "showinfo"
    /\ Len(cms_results) = 2
    /\ netlog[1].exc /= None
    /\ netlog[1].exc.msg = ""
    /\ cms_results[2] = "Shopify"

(***************************************************************************)
(* C6                                                                      *)
(***************************************************************************)
\* C6: detected_url of a row is non-empty only when a probe attempt of that
\* row returned a qualifying response, and is then the final URL of the
\* response that was classified; rows labelled "No domain / Generic email",
\* "Unknown / No site" or "Error" have an empty detected_url.
C6_UrlOnlyFromProbeResult ==
    /\ \A j \in Done :
           /\ urls_results[j] /= "" =>
                  /\ netlog[j].resp /= None
                  /\ InRange(netlog[j].resp)
                  /\ urls_results[j] = netlog[j].resp.url.v
                  /\ cms_results[j] = detect_cms_from_response(netlog[j].resp)
           /\ cms_results[j] \in {"No domain / Generic email", "Unknown / No site", "Error"}
                  => urls_results[j] = ""
    /\ (pc = "for_email" /\ i \in Done /\ urls_results[i] /= "") =>
           /\ requested /= <<>>
           /\ requested[Len(requested)].resp = netlog[i].resp

C6_Witness ==
    /\ pc = "done"
    /\ Len(cms_results) = 2
    /\ cms_results[1] = "Unknown / No site"
    /\ urls_results[2] = "https://www.shop.example/home"
    /\ cms_results[2] = "WordPress + WooCommerce"

(***************************************************************************)
(* C7                                                                      *)
(***************************************************************************)
\* C7: after a transport-level failure (or a response outside [200, 400)) of
\* one of the first three attempts the next combination is tried; after the
\* fourth, the row is recorded "Unknown / No site" with empty URL and empty
\* detail, and nothing is raised.
C7_FailuresSwallowed ==
    (requested /= <<>> /\ Failed(requested[Len(requested)])) =>
        IF Len(requested) < 4
        THEN /\ pc = "requests_get"
             /\ k = Len(requested)
             /\ Len(cms_results) = i - 1
             /\ netlog[i].exc = None
        ELSE /\ pc /= "requests_get"
             /\ Row(i) = <<"Unknown / No site", "", "">>
             /\ netlog[i].exc = None

C7_Witness ==
    /\ pc = "for_email"
    /\ i = 2
    /\ Len(requested) = 4
    /\ \A n \in 1..4 : Failed(requested[n])
    /\ requested[2].exc /= None
    /\ requested[4].exc /= None
    /\ requested[3].resp /= None
    /\ Row(i) = <<"Unknown / No site", "", "">>

(***************************************************************************)
(* C8                                                                      *)
(***************************************************************************)
\* C8: process_excel writes the output file at most once, and only after every
\* row has been processed; the file holds a result for every row; when reading
\* or processing fails the error reaches the caller and no file is written.
C8_WrittenOnceAfterAllRows ==
    /\ writes <= 1
    /\ pc \in {"idle", "read_excel", "process_dataframe", "for_email",
               "requests_get", "to_excel"} => (writes = 0 /\ outfile = None)
    /\ outfile /= None =>
           /\ writes = 1
           /\ pc = "done"
           /\ message = "showinfo"
           /\ i = Len(Column)
           /\ Len(cms_results) = Len(Column)
           /\ \A c \in 1..Len(outfile.sheet.data) :
                  Len(outfile.sheet.data[c]) = Len(Column)
    /\ (pc = "done" /\ (df = None \/ email_col = 0)) =>
           (message = "showerror" /\ outfile = None)

C8_Witness ==
    /\ pc = "done"
    /\ outfile /= None
    /\ writes = 1
    /\ Len(Column) = 2
    /\ cms_results[1] = "Error"

(***************************************************************************)
(* C9                                                                      *)
(***************************************************************************)
\* C9: a row whose cell yields no domain is recorded
\* {"No domain / Generic email", "", ""} without any GET being issued for it,
\* and no classifier call is made for a row recorded "Unknown / No site".
C9_StopsEarly ==
    (pc = "for_email" /\ i \in Done) =>
        /\ NoDomain(netlog[i].email) =>
               /\ Row(i) = <<"No domain / Generic email", "", "">>
               /\ requested = <<>>
               /\ classified = 0
        /\ cms_results[i] = "Unknown / No site" => classified = 0
        /\ classified = 1 => Answered(requested[Len(requested)])
        /\ classified <= 1

C9_Witness ==
    /\ pc = "for_email"
    /\ Len(cms_results) = 2
    /\ netlog[2].email = NaN
    /\ cms_results = <<"Unknown / No site", "No domain / Generic email">>
    /\ requested = <<>>

(***************************************************************************)
(* C10                                                                     *)
(***************************************************************************)
C10_AtMostFourDistinct ==
    /\ Len(requested) <= 4
    /\ \A m, n \in 1..Len(requested) : m /= n => requested[m].url /= requested[n].url

C10_AllRowsAttempted ==
    /\ pc = "to_excel"
    /\ i = Len(Column)
    /\ Len(netlog) = Len(Column)
    /\ Len(cms_results) = Len(Column)

\* C10: a row issues at most four GETs and no URL twice; and, every GET
\* returning or failing, a run that entered the loop finishes with every row
\* attempted, whatever fails or raises.
C10_BoundedAndTerminates ==
    /\ [] C10_AtMostFourDistinct
    /\ (pc \in {"for_email", "requests_get"}) ~> C10_AllRowsAttempted

C10_Witness ==
    /\ C10_AllRowsAttempted
    /\ Len(Column) = 2
    /\ cms_results[1] = "Error"
    /\ cms_results[2] = "Unknown / No site"

====
